---- MODULE Spec2Model ----
(***************************************************************************)
(* Model of the PPS watcher thread of gpsd (ppsthread.c): the monitor      *)
(* worker gpsd_ppsmonitor, the kernel PPS setup init_kernel_pps and the    *)
(* entry points pps_thread_activate, pps_thread_deactivate,                *)
(* pps_thread_stash_fixtime and pps_thread_lastpps, running as preemptive  *)
(* threads over one shared pps_thread_t context and the process-wide       *)
(* ppslast_mutex.                                                          *)
(***************************************************************************)
EXTENDS Integers, Sequences, FiniteSets, TLC

(***************************************************************************)
(* Bounds of the model.                                                    *)
(***************************************************************************)
BaseSec == 1000          \* the host clock reads BaseSec + k seconds
MaxWorkers == 2          \* threads pthread_create can start
MaxEdges == 3            \* edges arrive at BaseSec+1 .. BaseSec+MaxEdges
MaxStash == 2            \* the fixes carry the UTC seconds 1 .. MaxStash
MaxPolls == 2            \* calls of pps_thread_lastpps
MaxWave == 3             \* seconds a wave on the line lasts
MaxTicks == 19           \* seconds a stuck line is watched

(***************************************************************************)
(* Program constants.                                                      *)
(***************************************************************************)
NSEC_PER_SEC == 1000000000
TIOCM_CD == 64
STUCK_LIMIT == 10

Workers == 1..MaxWorkers

\* owners of ppslast_mutex: a worker's number, or one of
FREE == 0
STASHER == MaxWorkers + 1
CONSUMER == MaxWorkers + 2

ZeroTs == [sec |-> 0, nsec |-> 0]
ZeroTd == [real |-> ZeroTs, clock |-> ZeroTs]

(***************************************************************************)
(* Inputs of the environment.                                              *)
(***************************************************************************)
Ts(s, n) == [sec |-> s, nsec |-> n]
\* a reading of CLOCK_REALTIME just after a wakeup, k seconds after BaseSec
Clock(k) == Ts(BaseSec + k, 0)
\* an in-band fix: its UTC instant and the host clock at its arrival
Fix(real, clock) == [real |-> real, clock |-> clock]
\* masked modem-line bitmaps ioctl(TIOCMGET) can report
LineStates == {0, TIOCM_CD}
\* what time_pps_fetch can do: fail, or fill pi with the two timestamps
NoFetch == [ok |-> FALSE, assert |-> ZeroTs, clear |-> ZeroTs]
Fetch(a, c) == [ok |-> TRUE, assert |-> a, clear |-> c]

(***************************************************************************)
(* Timespec arithmetic.                                                    *)
(***************************************************************************)
\* a normalisation that never carries into a positive tv_sec
TS_NORM_nocarry(ts) ==
    IF (1 <= ts.sec) \/ (0 = ts.sec /\ 0 <= ts.nsec)
    THEN IF NSEC_PER_SEC <= ts.nsec
         THEN [sec |-> ts.sec + 1, nsec |-> ts.nsec - NSEC_PER_SEC]
         ELSE ts
    ELSE IF (0 - NSEC_PER_SEC) >= ts.nsec
         THEN [sec |-> ts.sec - 1, nsec |-> ts.nsec + NSEC_PER_SEC]
         ELSE IF 0 < ts.nsec
              THEN [sec |-> ts.sec + 1, nsec |-> ts.nsec - NSEC_PER_SEC]
              ELSE ts

TS_NORM(ts) ==
    IF (1 <= ts.sec) \/ (0 = ts.sec /\ 0 <= ts.nsec)
    THEN IF NSEC_PER_SEC <= ts.nsec
         THEN [sec |-> ts.sec + 1, nsec |-> ts.nsec - NSEC_PER_SEC]
         ELSE IF 0 > ts.nsec
              THEN [sec |-> ts.sec - 1, nsec |-> ts.nsec + NSEC_PER_SEC]
              ELSE ts
    ELSE IF (0 - NSEC_PER_SEC) >= ts.nsec
         THEN [sec |-> ts.sec - 1, nsec |-> ts.nsec + NSEC_PER_SEC]
         ELSE IF 0 < ts.nsec
              THEN [sec |-> ts.sec + 1, nsec |-> ts.nsec - NSEC_PER_SEC]
              ELSE ts

\* a difference with the operands the other way round
TS_SUB_swapped(ts1, ts2) ==
    TS_NORM([sec |-> ts2.sec - ts1.sec, nsec |-> ts2.nsec - ts1.nsec])

TS_SUB(ts1, ts2) ==
    TS_NORM([sec |-> ts1.sec - ts2.sec, nsec |-> ts1.nsec - ts2.nsec])

\* timespec_diff_ns(x, y) / 1000 with C's division (truncation toward zero):
\* the nanosecond difference is (dsec * 10^6 + q) * 1000 + r, 0 <= r < 1000
timespec_diff_us(x, y) ==
    LET dsec == x.sec - y.sec
        dnsec == x.nsec - y.nsec
        q == dnsec \div 1000
        r == dnsec % 1000
        m == dsec * 1000000 + q
    IN  IF m < 0 /\ r > 0 THEN m + 1 ELSE m

\* cycle = timespec_diff_ns(x, y) / 1000 as the int it is assigned to: the
\* microsecond difference modulo 2^32, read as a signed 32-bit value.  The
\* product dsec * 10^6 is formed on 16-bit halves (10^6 = 15 * 2^16 +
\* 16960), a carry from the low half going into the high one.
int_diff_us(x, y) ==
    LET dsec == x.sec - y.sec
        dnsec == x.nsec - y.nsec
        q == dnsec \div 1000
        r == dnsec % 1000
        neg == dsec < 0 \/ (dsec = 0 /\ q < 0)
        c == IF neg /\ r > 0 THEN q + 1 ELSE q
        dl == dsec % 65536
        dh == (dsec \div 65536) % 65536
        p0 == dl * 16960
        hi0 == ((p0 \div 65536) + dh * 16960 + dl * 15) % 65536
        lo1 == (p0 % 65536) + c
        lo == lo1 % 65536
        hi == (hi0 + (lo1 \div 65536)) % 65536
    IN  IF hi < 32768 THEN hi * 65536 + lo ELSE (hi - 65536) * 65536 + lo

(***************************************************************************)
(* State.                                                                  *)
(***************************************************************************)
VARIABLES
    \* the shared context (struct pps_thread_t)
    report_hook, pps_hook, wrap_hook,   \* TRUE when the hook is non-NULL
    devicefd_tty,                       \* isatty(devicefd)
    kernelpps_handle,                   \* -1 or a handle
    fixin_real, fixin_clock,
    ppsout_last, ppsout_count,
    mutex,                              \* ppslast_mutex: FREE or its owner
    \* gpsd_ppsmonitor, per thread
    pc,
    last_fixtime_real, last_fixtime_clock,
    last_second_used, state_last, unchanged,
    pulse, pulse_kpps,
    ppstimes, log, log1,
    \* the callers of the entry points
    apc,                                \* pps_thread_activate in progress
    dpc,                                \* pps_thread_deactivate in progress
    spc, sargs,                         \* pps_thread_stash_fixtime in progress
    cpc, td, ret,                       \* pps_thread_lastpps in progress
    \* the kernel PPS object
    kpps_live,                          \* handles created and not destroyed
    kpps_setup,                         \* how the latest init_kernel_pps ended
    \* bookkeeping of the environment
    npolls,
    \* history
    nact,                               \* calls of pps_thread_activate
    lastArgs,                           \* arguments of the latest stash call
    lastPub,                            \* latest publication: count and delta
    lastReal,                           \* per worker: real.tv_sec last published
    probe,                              \* input and result of a function applied alone
    trace                               \* per worker: events of the iteration

ctx == <<report_hook, pps_hook, wrap_hook, devicefd_tty, kernelpps_handle,
         fixin_real, fixin_clock, ppsout_last, ppsout_count, mutex>>
locals == <<last_fixtime_real, last_fixtime_clock, last_second_used,
            state_last, unchanged, pulse, pulse_kpps, ppstimes, log, log1>>
callers == <<apc, dpc, spc, sargs, cpc, td, ret>>
env == <<kpps_live, kpps_setup, npolls>>
hist == <<nact, lastArgs, lastPub, lastReal, trace, probe>>
vars == <<ctx, pc, locals, callers, env, hist>>

NoProbe == [cycle |-> 0, duration |-> 0, edge |-> 0, ok |-> FALSE, log |-> "NULL"]

Init ==
    /\ report_hook \in BOOLEAN
    /\ pps_hook \in BOOLEAN
    /\ wrap_hook \in BOOLEAN
    /\ devicefd_tty \in BOOLEAN
    /\ kernelpps_handle = -1
    /\ fixin_real = ZeroTs
    /\ fixin_clock = ZeroTs
    /\ ppsout_last = ZeroTd
    /\ ppsout_count = 0
    /\ mutex = FREE
    /\ pc = [w \in Workers |-> "idle"]
    /\ last_fixtime_real = [w \in Workers |-> ZeroTs]
    /\ last_fixtime_clock = [w \in Workers |-> ZeroTs]
    /\ last_second_used = [w \in Workers |-> 0]
    /\ state_last = [w \in Workers |-> 0]
    /\ unchanged = [w \in Workers |-> 0]
    /\ pulse = [w \in Workers |-> <<ZeroTs, ZeroTs>>]
    /\ pulse_kpps = [w \in Workers |-> <<ZeroTs, ZeroTs>>]
    /\ ppstimes = [w \in Workers |-> ZeroTd]
    /\ log = [w \in Workers |-> "NULL"]
    /\ log1 = [w \in Workers |-> "NULL"]
    /\ apc = "idle"
    /\ dpc = "idle"
    /\ spc = "idle"
    /\ sargs = <<ZeroTs, ZeroTs>>
    /\ cpc = "idle"
    /\ td = ZeroTd
    /\ ret = 0
    /\ kpps_live = {}
    /\ kpps_setup = "none"
    /\ npolls = 0
    /\ nact = 0
    /\ lastArgs = <<ZeroTs, ZeroTs>>
    /\ lastPub = [n |-> 0, td |-> ZeroTd]
    /\ lastReal = [w \in Workers |-> 0]
    /\ probe = NoProbe
    /\ trace = [w \in Workers |-> <<>>]

(***************************************************************************)
(* The environment: the host clock only moves forward, so a                *)
(* worker reads an instant later than the edges it has stored, and the     *)
(* receiver reports later and later seconds.                               *)
(***************************************************************************)
After(a, b) == a.sec > b.sec \/ (a.sec = b.sec /\ a.nsec > b.nsec)

Later(Clocks, w) ==
    {c \in Clocks : After(c, pulse[w][1]) /\ After(c, pulse[w][2])}

\* A wave on the line is a set of edges, each the instant the worker reads
\* for it and the line state after it.  Once a fix is stashed the worker
\* is woken for every edge of the wave, in order: the next one is the
\* earliest edge later than those it has stored.
WaveEdge(clock, state) == [clock |-> clock, state |-> state]

WaveNext(Wave, w) ==
    LET pending == {e \in Wave : /\ fixin_clock.sec # 0
                                 /\ e.clock \in Later({e.clock}, w)}
    IN  {e \in pending : \A o \in pending : ~After(e.clock, o.clock)}

WaveClocks(Wave, w) == {e.clock : e \in WaveNext(Wave, w)}
WaveLines(Wave, w) == {e.state : e \in WaveNext(Wave, w)}

Newer(Fixes) == {f \in Fixes : f.real.sec > fixin_real.sec}

(***************************************************************************)
(* A call through a NULL hook ends the process: nothing runs after it.     *)
(***************************************************************************)
Alive == \A w \in Workers : pc[w] # "crashed"

(***************************************************************************)
(* pps_thread_stash_fixtime: lock, write fixin_real, write fixin_clock,    *)
(* unlock.                                                                 *)
(***************************************************************************)
\* a stash that writes fixin_real without taking the mutex
stash_real_nolock(realtime, clocktime) ==
    /\ Alive
    /\ spc = "idle"
    /\ fixin_real' = realtime
    /\ sargs' = <<realtime, clocktime>>
    /\ lastArgs' = <<realtime, clocktime>>
    /\ spc' = "clock"
    /\ UNCHANGED <<report_hook, pps_hook, wrap_hook, devicefd_tty,
                   kernelpps_handle, fixin_clock, ppsout_last, ppsout_count,
                   mutex>>
    /\ UNCHANGED <<pc, locals, apc, dpc, cpc, td, ret, env, nact, lastPub,
                   lastReal, probe, trace>>

stash_lock_real(realtime, clocktime) ==
    /\ Alive
    /\ spc = "idle"
    /\ mutex = FREE
    /\ mutex' = STASHER
    /\ fixin_real' = realtime
    /\ sargs' = <<realtime, clocktime>>
    /\ lastArgs' = <<realtime, clocktime>>
    /\ spc' = "clock"
    /\ UNCHANGED <<report_hook, pps_hook, wrap_hook, devicefd_tty,
                   kernelpps_handle, fixin_clock, ppsout_last, ppsout_count>>
    /\ UNCHANGED <<pc, locals, apc, dpc, cpc, td, ret, env, nact, lastPub,
                   lastReal, probe, trace>>

stash_clock_unlock ==
    /\ Alive
    /\ spc = "clock"
    /\ fixin_clock' = sargs[2]
    /\ mutex' = FREE
    /\ sargs' = <<ZeroTs, ZeroTs>>
    /\ spc' = "idle"
    /\ UNCHANGED <<report_hook, pps_hook, wrap_hook, devicefd_tty,
                   kernelpps_handle, fixin_real, ppsout_last, ppsout_count>>
    /\ UNCHANGED <<pc, locals, apc, dpc, cpc, td, ret, env, hist>>

pps_thread_stash_fixtime(Fixes) ==
    \/ \E fix \in Newer(Fixes) : stash_lock_real(fix.real, fix.clock)
    \/ stash_clock_unlock

(***************************************************************************)
(* pps_thread_lastpps: lock, copy ppsout_last out, read ppsout_count,      *)
(* unlock, return the count.                                               *)
(***************************************************************************)
lastpps_lock_copy ==
    /\ Alive
    /\ cpc = "idle"
    /\ npolls < MaxPolls
    /\ mutex = FREE
    /\ mutex' = CONSUMER
    /\ td' = ppsout_last
    /\ npolls' = npolls + 1
    /\ cpc' = "count"
    /\ UNCHANGED <<report_hook, pps_hook, wrap_hook, devicefd_tty,
                   kernelpps_handle, fixin_real, fixin_clock, ppsout_last,
                   ppsout_count>>
    /\ UNCHANGED <<pc, locals, apc, dpc, spc, sargs, ret, kpps_live, kpps_setup,
                   hist>>

lastpps_count_unlock ==
    /\ Alive
    /\ cpc = "count"
    /\ ret' = ppsout_count
    /\ mutex' = FREE
    /\ cpc' = "idle"
    /\ UNCHANGED <<report_hook, pps_hook, wrap_hook, devicefd_tty,
                   kernelpps_handle, fixin_real, fixin_clock, ppsout_last,
                   ppsout_count>>
    /\ UNCHANGED <<pc, locals, apc, dpc, spc, sargs, td, env, hist>>

pps_thread_lastpps ==
    \/ lastpps_lock_copy
    \/ lastpps_count_unlock

(***************************************************************************)
(* pps_thread_deactivate: two separate stores, no lock.                    *)
(***************************************************************************)
deactivate_report ==
    /\ Alive
    /\ dpc = "idle"
    /\ report_hook' = FALSE
    /\ dpc' = "pps"
    /\ UNCHANGED <<pps_hook, wrap_hook, devicefd_tty, kernelpps_handle,
                   fixin_real, fixin_clock, ppsout_last, ppsout_count, mutex>>
    /\ UNCHANGED <<pc, locals, apc, spc, sargs, cpc, td, ret, env, hist>>

\* a deactivate that leaves pps_hook set
deactivate_pps_skipped ==
    /\ Alive
    /\ dpc = "pps"
    /\ dpc' = "done"
    /\ UNCHANGED <<ctx, pc, locals, apc, spc, sargs, cpc, td, ret, env, hist>>

deactivate_pps ==
    /\ Alive
    /\ dpc = "pps"
    /\ pps_hook' = FALSE
    /\ dpc' = "done"
    /\ UNCHANGED <<report_hook, wrap_hook, devicefd_tty, kernelpps_handle,
                   fixin_real, fixin_clock, ppsout_last, ppsout_count, mutex>>
    /\ UNCHANGED <<pc, locals, apc, spc, sargs, cpc, td, ret, env, hist>>

pps_thread_deactivate ==
    \/ deactivate_report
    \/ deactivate_pps

(***************************************************************************)
(* init_kernel_pps: the handle is reset to -1, then every step of the      *)
(* setup may fail.  h is the handle time_pps_create would hand out.        *)
(***************************************************************************)
KppsOutcomes == {"ldisc", "notfound", "notroot", "open", "create",
                 "setparams", "ok"}

\* a setup that goes on without the check of isatty
init_kernel_pps_anyfd(isatty, outcome, h) ==
    IF outcome \in {"ldisc", "notfound", "notroot", "open", "create"}
    THEN -1
    ELSE h

\* the value of kernelpps_handle when init_kernel_pps returns
init_kernel_pps(isatty, outcome, h) ==
    IF ~isatty THEN -1
    ELSE IF outcome \in {"ldisc", "notfound", "notroot", "open", "create"}
         THEN -1
         ELSE h     \* time_pps_create stored it; setparams may still fail

\* where init_kernel_pps returned: the step that failed, or "ok"
init_kernel_pps_end(isatty, outcome) ==
    IF ~isatty THEN "notty" ELSE outcome

\* the handles open in the kernel when init_kernel_pps returns
init_kernel_pps_live(isatty, outcome, h, live) ==
    IF isatty /\ outcome = "ok" THEN live \cup {h} ELSE live

(***************************************************************************)
(* pps_thread_activate: kernel setup, whose result is ignored, then        *)
(* pthread_create.                                                         *)
(***************************************************************************)
activate_init(Outcomes, Handles, Calls) ==
    /\ Alive
    /\ apc = "idle"
    /\ nact < Calls
    /\ \E outcome \in Outcomes, h \in Handles :
          /\ kernelpps_handle' =
                 init_kernel_pps(devicefd_tty, outcome, h)
          /\ kpps_live' =
                 init_kernel_pps_live(devicefd_tty, outcome, h, kpps_live)
          /\ kpps_setup' = init_kernel_pps_end(devicefd_tty, outcome)
    /\ apc' = "create"
    /\ nact' = nact + 1
    /\ UNCHANGED <<report_hook, pps_hook, wrap_hook, devicefd_tty,
                   fixin_real, fixin_clock, ppsout_last, ppsout_count, mutex>>
    /\ UNCHANGED <<pc, locals, dpc, spc, sargs, cpc, td, ret, npolls,
                   lastArgs, lastPub, lastReal, probe, trace>>

\* the thread pthread_create starts: the first unused one
NewWorker == CHOOSE w \in Workers :
                 pc[w] = "idle" /\ \A v \in Workers : pc[v] = "idle" => w <= v

activate_create ==
    /\ Alive
    /\ apc = "create"
    /\ \/ pc' = [pc EXCEPT ![NewWorker] = "top"]     \* retval == 0
       \/ pc' = pc                                    \* "FAILED"
    /\ apc' = "idle"
    /\ UNCHANGED <<ctx, locals, dpc, spc, sargs, cpc, td, ret, env, hist>>

pps_thread_activate(Outcomes, Handles, Calls) ==
    \/ activate_init(Outcomes, Handles, Calls)
    \/ activate_create

(***************************************************************************)
(* gpsd_ppsmonitor: the pieces of one iteration.                           *)
(***************************************************************************)
\* an edge taken for an assert when the line falls
EdgeFalling(state, prev) == IF state < prev THEN 1 ELSE 0

\* edge = (state > state_last) ? 1 : 0
Edge(state, prev) == IF state > prev THEN 1 ELSE 0

\* the newer of the two kernel timestamps: 1 = assert, 0 = clear
KppsEdge(pi) ==
    IF pi.assert.sec > pi.clear.sec THEN 1
    ELSE IF pi.assert.sec < pi.clear.sec THEN 0
    ELSE IF pi.assert.nsec > pi.clear.nsec THEN 1
    ELSE 0

KppsTs(pi) == IF KppsEdge(pi) = 1 THEN pi.assert ELSE pi.clear

\* a kernel path that takes any fetched cycle for a good one
KppsOkAny(cycle_kpps) == TRUE

\* KPPS passes a basic sanity check
KppsOk(cycle_kpps) == 990000 < cycle_kpps /\ 1010000 > cycle_kpps

\* a counter that is reset one wakeup late
StuckStateLate(state, prev, cycle, duration, unch) ==
    IF state = prev
    THEN IF 999000 < cycle /\ 1001000 > cycle
         THEN [duration |-> 0, unchanged |-> 0, slept |-> FALSE]
         ELSE IF unch + 1 = STUCK_LIMIT + 1
              THEN [duration |-> duration, unchanged |-> 1, slept |-> TRUE]
              ELSE [duration |-> duration, unchanged |-> unch + 1,
                    slept |-> FALSE]
    ELSE [duration |-> duration, unchanged |-> 0, slept |-> FALSE]

\* the handling of a wakeup that may have left the line state as it was:
\* the duration and the unchanged counter after it, and whether it slept
StuckState(state, prev, cycle, duration, unch) ==
    IF state = prev
    THEN IF 999000 < cycle /\ 1001000 > cycle
         THEN [duration |-> 0, unchanged |-> 0, slept |-> FALSE]
         ELSE IF unch + 1 = STUCK_LIMIT
              THEN [duration |-> duration, unchanged |-> 1, slept |-> TRUE]
              ELSE [duration |-> duration, unchanged |-> unch + 1,
                    slept |-> FALSE]
    ELSE [duration |-> duration, unchanged |-> 0, slept |-> FALSE]

\* a table whose 5 Hz window includes its upper bound
ClassifyInclusive(cycle, duration, edge) ==
    IF 0 > cycle THEN [ok |-> FALSE, log |-> "Rejecting negative cycle"]
    ELSE IF 199000 > cycle THEN [ok |-> FALSE, log |-> "Too short for 5Hz"]
    ELSE IF 201000 >= cycle THEN
        IF 100000 > duration THEN [ok |-> TRUE, log |-> "5Hz PPS pulse"]
        ELSE [ok |-> FALSE, log |-> "Unknown error"]
    ELSE IF 900000 > cycle
        THEN [ok |-> FALSE, log |-> "Too long for 5Hz, too short for 1Hz"]
    ELSE IF 1100000 > cycle THEN
        IF 0 = duration THEN [ok |-> TRUE, log |-> "invisible pulse"]
        ELSE IF 499000 > duration
            THEN [ok |-> FALSE, log |-> "1Hz trailing edge"]
        ELSE IF 501000 > duration THEN
            IF edge = 1 THEN [ok |-> TRUE, log |-> "square"]
            ELSE [ok |-> FALSE, log |-> "Unknown error"]
        ELSE [ok |-> TRUE, log |-> "1Hz leading edge"]
    ELSE IF 1999000 > cycle
        THEN [ok |-> FALSE, log |-> "Too long for 1Hz, too short for 2Hz"]
    ELSE IF 2001000 > cycle THEN
        IF 999000 > duration
            THEN [ok |-> FALSE, log |-> "0.5 Hz square too short duration"]
        ELSE IF 1001000 > duration
            THEN [ok |-> TRUE, log |-> "0.5 Hz square wave"]
        ELSE [ok |-> FALSE, log |-> "0.5 Hz square too long duration"]
    ELSE [ok |-> FALSE, log |-> "Too long for 0.5Hz"]

\* the cycle/duration table of the user-space path
Classify(cycle, duration, edge) ==
    IF 0 > cycle THEN [ok |-> FALSE, log |-> "Rejecting negative cycle"]
    ELSE IF 199000 > cycle THEN [ok |-> FALSE, log |-> "Too short for 5Hz"]
    ELSE IF 201000 > cycle THEN
        IF 100000 > duration THEN [ok |-> TRUE, log |-> "5Hz PPS pulse"]
        ELSE [ok |-> FALSE, log |-> "Unknown error"]
    ELSE IF 900000 > cycle
        THEN [ok |-> FALSE, log |-> "Too long for 5Hz, too short for 1Hz"]
    ELSE IF 1100000 > cycle THEN
        IF 0 = duration THEN [ok |-> TRUE, log |-> "invisible pulse"]
        ELSE IF 499000 > duration
            THEN [ok |-> FALSE, log |-> "1Hz trailing edge"]
        ELSE IF 501000 > duration THEN
            IF edge = 1 THEN [ok |-> TRUE, log |-> "square"]
            ELSE [ok |-> FALSE, log |-> "Unknown error"]
        ELSE [ok |-> TRUE, log |-> "1Hz leading edge"]
    ELSE IF 1999000 > cycle
        THEN [ok |-> FALSE, log |-> "Too long for 1Hz, too short for 2Hz"]
    ELSE IF 2001000 > cycle THEN
        IF 999000 > duration
            THEN [ok |-> FALSE, log |-> "0.5 Hz square too short duration"]
        ELSE IF 1001000 > duration
            THEN [ok |-> TRUE, log |-> "0.5 Hz square wave"]
        ELSE [ok |-> FALSE, log |-> "0.5 Hz square too long duration"]
    ELSE [ok |-> FALSE, log |-> "Too long for 0.5Hz"]

\* TS_NORM applied alone to one timespec, once and twice
ts_norm_alone(Secs, Nsecs) ==
    /\ \E sec \in Secs, nsec \in Nsecs :
          LET ts == [sec |-> sec, nsec |-> nsec]
          IN  probe' = [ts |-> ts, once |-> TS_NORM(ts),
                        twice |-> TS_NORM(TS_NORM(ts))]
    /\ UNCHANGED <<ctx, pc, locals, callers, env, nact, lastArgs, lastPub,
                   lastReal, trace>>

\* the table applied alone to one (cycle, duration, edge)
classify_alone(Cycles, Durations) ==
    /\ \E cycle \in Cycles, duration \in Durations, edge \in {0, 1} :
          LET cls == Classify(cycle, duration, edge)
          IN  probe' = [cycle |-> cycle, duration |-> duration, edge |-> edge,
                        ok |-> cls.ok, log |-> cls.log]
    /\ UNCHANGED <<ctx, pc, locals, callers, env, nact, lastArgs, lastPub,
                   lastReal, trace>>

\* a dedup that lets the second just used through once more
AlreadyHandledStrict(used, fixsec) == used > fixsec

\* uh, oh, this second already handled
AlreadyHandled(used, fixsec) == used >= fixsec

\* a top of second that keeps the fraction of the fix
PpsRealUnrounded(fix_real) ==
    [sec |-> fix_real.sec + 1, nsec |-> fix_real.nsec]

\* ppstimes.real: the second after the fix, on the second
PpsReal(fix_real) == [sec |-> fix_real.sec + 1, nsec |-> 0]

\* the check of the delay after the last fix: "NULL" lets the pulse through
SanityCheck(delay) ==
    IF 0 > delay.sec \/ 0 > delay.nsec THEN "system clock went backwards"
    ELSE IF (2 < delay.sec) \/ (1 = delay.sec /\ 100000000 > delay.nsec)
         THEN "timestamp out of range"
         ELSE "NULL"

\* an edge that the kernel path alone can get accepted
AcceptedEither(cls_ok, ok_kpps) == cls_ok \/ ok_kpps

\* ok: set by the cycle/duration table only, ok_kpps is kept apart
Accepted(cls_ok, ok_kpps) == cls_ok

\* a worker that handles an edge without a fix like any other
NoFixNever(fix_real) == FALSE

\* if (last_fixtime_real.tv_sec == 0) continue
NoFix(fix_real) == fix_real.sec = 0

\* an iteration in which a rejected edge ends the loop
NextStepBreak(accepted) == IF accepted THEN "report_test" ELSE "exit"

\* a rejected edge is a continue, an accepted one falls through to the hooks
NextStep(accepted) == IF accepted THEN "report_test" ELSE "top"

\* the iteration from the clock read to the decision, for a worker whose
\* locals are the arguments; next is where the worker goes
Iteration(fix_real, fix_clock, handle, used, prev, unch, pu, pk, clock_ts, state_raw, fetch) ==
    LET keep == [last_second_used |-> used, state_last |-> prev,
                 unchanged |-> unch, pulse |-> pu, pulse_kpps |-> pk,
                 ppstimes |-> ZeroTd, log |-> "NULL", log1 |-> "NULL",
                 slept |-> FALSE, next |-> NextStep(FALSE)]
    IN
    IF NoFix(fix_real) THEN keep
    ELSE
    LET state == state_raw
        edge == Edge(state, prev)
        \* the kernel path
        fetched == 0 <= handle /\ fetch.ok
        edge_kpps == KppsEdge(fetch)
        ts_kpps == KppsTs(fetch)
        cycle_kpps == int_diff_us(ts_kpps, pk[edge_kpps + 1])
        pk2 == IF fetched THEN [pk EXCEPT ![edge_kpps + 1] = ts_kpps] ELSE pk
        ok_kpps == fetched /\ KppsOk(cycle_kpps)
        \* the user-space path
        cycle == int_diff_us(clock_ts, pu[edge + 1])
        duration0 == int_diff_us(clock_ts, pu[(1 - edge) + 1])
        stuck == StuckState(state, prev, cycle, duration0, unch)
        pu2 == [pu EXCEPT ![edge + 1] = clock_ts]
        seen == [keep EXCEPT !.state_last = state,
                             !.unchanged = stuck.unchanged,
                             !.pulse = pu2, !.pulse_kpps = pk2,
                             !.slept = stuck.slept,
                             !.log = IF ok_kpps THEN "KPPS" ELSE "NULL"]
    IN
    IF stuck.unchanged # 0 THEN seen
    ELSE
    LET cls == Classify(cycle, stuck.duration, edge)
    IN
    IF ~Accepted(cls.ok, ok_kpps) THEN [seen EXCEPT !.log = cls.log]
    ELSE IF AlreadyHandled(used, fix_real.sec)
    THEN [seen EXCEPT !.log = "this second already handled"]
    ELSE
    LET chosen == IF 0 <= handle /\ ok_kpps
                  THEN (IF edge_kpps = 1 THEN fetch.assert ELSE fetch.clear)
                  ELSE clock_ts
        times == [real |-> PpsReal(fix_real), clock |-> chosen]
        delay == TS_SUB(times.clock, fix_clock)
        verdict == SanityCheck(delay)
    IN
    IF verdict # "NULL"
    THEN [seen EXCEPT !.log = cls.log, !.ppstimes = times, !.log1 = verdict]
    ELSE [seen EXCEPT !.log = cls.log, !.ppstimes = times,
                      !.last_second_used = fix_real.sec,
                      !.next = NextStep(TRUE)]

(***************************************************************************)
(* gpsd_ppsmonitor: the steps of worker w.                                 *)
(***************************************************************************)
shared_in == <<fixin_real, fixin_clock>>
shared_out == <<ppsout_last, ppsout_count>>
hooks == <<report_hook, pps_hook, wrap_hook>>
classifier == <<last_second_used, state_last, unchanged, pulse, pulse_kpps>>
others == <<callers, npolls, nact, lastArgs>>

\* a loop that goes on to the wait whatever the hooks are
loop_test_report_always(w) ==
    /\ Alive
    /\ pc[w] = "top"
    /\ pc' = [pc EXCEPT ![w] = "wait"]
    /\ ppstimes' = [ppstimes EXCEPT ![w] = ZeroTd]
    /\ log' = [log EXCEPT ![w] = "NULL"]
    /\ log1' = [log1 EXCEPT ![w] = "NULL"]
    /\ trace' = [trace EXCEPT ![w] = <<>>]
    /\ UNCHANGED <<hooks, devicefd_tty, kernelpps_handle, shared_in,
                   shared_out, mutex, last_fixtime_real, last_fixtime_clock,
                   classifier, others, kpps_live, kpps_setup, lastPub,
                   lastReal, probe>>

\* while (report_hook != NULL || pps_hook != NULL): the first read
loop_test_report(w) ==
    /\ Alive
    /\ pc[w] = "top"
    /\ pc' = [pc EXCEPT ![w] = IF report_hook THEN "wait" ELSE "top2"]
    /\ ppstimes' = [ppstimes EXCEPT ![w] = ZeroTd]
    /\ log' = [log EXCEPT ![w] = "NULL"]
    /\ log1' = [log1 EXCEPT ![w] = "NULL"]
    /\ trace' = [trace EXCEPT ![w] = <<>>]
    /\ UNCHANGED <<hooks, devicefd_tty, kernelpps_handle, shared_in,
                   shared_out, mutex, last_fixtime_real, last_fixtime_clock,
                   classifier, others, kpps_live, kpps_setup, lastPub,
                   lastReal, probe>>

\* a loop condition that ends the loop as soon as report_hook is NULL
loop_test_pps_either(w) ==
    /\ Alive
    /\ pc[w] = "top2"
    /\ pc' = [pc EXCEPT ![w] = "exit"]
    /\ UNCHANGED <<ctx, locals, others, kpps_live, kpps_setup, lastPub,
                   lastReal, probe, trace>>

\* the second read of the loop condition
loop_test_pps(w) ==
    /\ Alive
    /\ pc[w] = "top2"
    /\ pc' = [pc EXCEPT ![w] = IF pps_hook THEN "wait" ELSE "exit"]
    /\ UNCHANGED <<ctx, locals, others, kpps_live, kpps_setup, lastPub,
                   lastReal, probe, trace>>

\* ioctl(TIOCMIWAIT): the next edge, or a failure that leaves the loop
wait_edge(w, Clocks) ==
    /\ Alive
    /\ pc[w] = "wait"
    /\ \/ /\ Later(Clocks, w) # {}
          /\ pc' = [pc EXCEPT ![w] = "lock1"]
       \/ pc' = [pc EXCEPT ![w] = "exit"]
    /\ UNCHANGED <<ctx, locals, others, kpps_live, kpps_setup, lastPub,
                   lastReal, probe, trace>>

\* lock; last_fixtime_real = fixin_real
copy_real(w) ==
    /\ Alive
    /\ pc[w] = "lock1"
    /\ mutex = FREE
    /\ mutex' = w
    /\ last_fixtime_real' = [last_fixtime_real EXCEPT ![w] = fixin_real]
    /\ pc' = [pc EXCEPT ![w] = "copy2"]
    /\ UNCHANGED <<hooks, devicefd_tty, kernelpps_handle, shared_in,
                   shared_out, last_fixtime_clock, classifier, ppstimes, log,
                   log1, others, env, lastPub, lastReal, probe, trace>>

\* a copy-out that keeps the mutex over the rest of the iteration
copy_clock_keep(w) ==
    /\ Alive
    /\ pc[w] = "copy2"
    /\ last_fixtime_clock' = [last_fixtime_clock EXCEPT ![w] = fixin_clock]
    /\ pc' = [pc EXCEPT ![w] = "measure"]
    /\ UNCHANGED <<hooks, devicefd_tty, kernelpps_handle, shared_in,
                   shared_out, mutex, last_fixtime_real, classifier, ppstimes,
                   log, log1, others, env, lastPub, lastReal, probe, trace>>

\* last_fixtime_clock = fixin_clock; unlock
copy_clock(w) ==
    /\ Alive
    /\ pc[w] = "copy2"
    /\ last_fixtime_clock' = [last_fixtime_clock EXCEPT ![w] = fixin_clock]
    /\ mutex' = FREE
    /\ pc' = [pc EXCEPT ![w] = "measure"]
    /\ UNCHANGED <<hooks, devicefd_tty, kernelpps_handle, shared_in,
                   shared_out, last_fixtime_real, classifier, ppstimes, log,
                   log1, others, env, lastPub, lastReal, probe, trace>>

\* what time_pps_fetch hands out for the edge read at clock_ts: with a
\* driver that captures edges, an assert 20 us before the read, or a clear
\* following the assert of the second before, or a failure of the fetch;
\* with no PPS event to hand out, a failure
KppsOf(clock_ts, Driver) ==
    LET k == Ts(clock_ts.sec - 1, 999980000)
    IN  IF Driver
        THEN {NoFetch, Fetch(k, ZeroTs), Fetch(Ts(k.sec - 1, k.nsec), k)}
        ELSE {NoFetch}

\* clock_gettime, ioctl(TIOCMGET), the kernel fetch, the classifier, the
\* dedup and the sanity check: all on the worker's own variables
measure(w, Clocks, Lines, Driver) ==
    /\ Alive
    /\ pc[w] = "measure"
    /\ \/ /\ pc' = [pc EXCEPT ![w] = "exit"]      \* clock_gettime failed
          /\ UNCHANGED <<locals, trace>>
       \/ /\ pc' = [pc EXCEPT ![w] = "exit"]      \* ioctl(TIOCMGET) failed
          /\ UNCHANGED <<locals, trace>>
       \/ \E clock_ts \in Later(Clocks, w), state \in Lines :
          \E fetch \in (IF 0 <= kernelpps_handle
                           /\ last_fixtime_real[w].sec # 0
                        THEN KppsOf(clock_ts, Driver) ELSE {NoFetch}) :
            LET it == Iteration(last_fixtime_real[w], last_fixtime_clock[w],
                                kernelpps_handle, last_second_used[w],
                                state_last[w], unchanged[w], pulse[w],
                                pulse_kpps[w], clock_ts, state, fetch)
            IN  /\ last_second_used' =
                       [last_second_used EXCEPT ![w] = it.last_second_used]
                /\ state_last' = [state_last EXCEPT ![w] = it.state_last]
                /\ unchanged' = [unchanged EXCEPT ![w] = it.unchanged]
                /\ pulse' = [pulse EXCEPT ![w] = it.pulse]
                /\ pulse_kpps' = [pulse_kpps EXCEPT ![w] = it.pulse_kpps]
                /\ ppstimes' = [ppstimes EXCEPT ![w] = it.ppstimes]
                /\ log' = [log EXCEPT ![w] = it.log]
                /\ log1' = [log1 EXCEPT ![w] = it.log1]
                /\ trace' = [trace EXCEPT ![w] =
                                 IF it.slept THEN <<"sleep">> ELSE <<>>]
                /\ pc' = [pc EXCEPT ![w] = it.next]
                /\ UNCHANGED <<last_fixtime_real, last_fixtime_clock>>
    /\ UNCHANGED <<ctx, others, env, lastPub, lastReal, probe>>

\* if (report_hook != NULL)
report_test(w) ==
    /\ Alive
    /\ pc[w] = "report_test"
    /\ IF report_hook
       THEN /\ pc' = [pc EXCEPT ![w] = "report_call"]
            /\ UNCHANGED log1
       ELSE /\ pc' = [pc EXCEPT ![w] = "pps_test"]
            /\ log1' = [log1 EXCEPT ![w] = "no report hook"]
    /\ UNCHANGED <<ctx, last_fixtime_real, last_fixtime_clock, classifier,
                   ppstimes, log, others, env, lastPub, lastReal, probe, trace>>

\* log1 = report_hook(thread_context, &ppstimes): the field is read again
report_call(w) ==
    /\ Alive
    /\ pc[w] = "report_call"
    /\ IF report_hook
       THEN /\ pc' = [pc EXCEPT ![w] = "pps_test"]
            /\ log1' = [log1 EXCEPT ![w] = "reported"]
            /\ trace' = [trace EXCEPT ![w] = Append(@, "report")]
       ELSE /\ pc' = [pc EXCEPT ![w] = "crashed"]   \* call through NULL
            /\ UNCHANGED <<log1, trace>>
    /\ UNCHANGED <<ctx, last_fixtime_real, last_fixtime_clock, classifier,
                   ppstimes, log, others, env, lastPub, lastReal, probe>>

\* if (pps_hook != NULL)
pps_test(w) ==
    /\ Alive
    /\ pc[w] = "pps_test"
    /\ pc' = [pc EXCEPT ![w] = IF pps_hook THEN "pps_call" ELSE "lock2"]
    /\ UNCHANGED <<ctx, locals, others, env, lastPub, lastReal, probe, trace>>

\* a worker that calls pps_hook twice for one pulse
pps_call_twice(w) ==
    /\ Alive
    /\ pc[w] = "pps_call"
    /\ IF pps_hook
       THEN /\ pc' = [pc EXCEPT ![w] = "lock2"]
            /\ trace' = [trace EXCEPT ![w] = Append(Append(@, "pps"), "pps")]
       ELSE /\ pc' = [pc EXCEPT ![w] = "crashed"]
            /\ UNCHANGED trace
    /\ UNCHANGED <<ctx, locals, others, env, lastPub, lastReal, probe>>

\* pps_hook(thread_context, &ppstimes): the field is read again
pps_call(w) ==
    /\ Alive
    /\ pc[w] = "pps_call"
    /\ IF pps_hook
       THEN /\ pc' = [pc EXCEPT ![w] = "lock2"]
            /\ trace' = [trace EXCEPT ![w] = Append(@, "pps")]
       ELSE /\ pc' = [pc EXCEPT ![w] = "crashed"]   \* call through NULL
            /\ UNCHANGED trace
    /\ UNCHANGED <<ctx, locals, others, env, lastPub, lastReal, probe>>

\* a publication in two critical sections: the mutex is released between
\* the write of ppsout_last and the increment
publish_last_split(w) ==
    /\ Alive
    /\ pc[w] = "lock2"
    /\ mutex = FREE
    /\ ppsout_last' = ppstimes[w]
    /\ trace' = [trace EXCEPT ![w] = Append(@, "last")]
    /\ pc' = [pc EXCEPT ![w] = "count"]
    /\ UNCHANGED <<hooks, devicefd_tty, kernelpps_handle, shared_in,
                   ppsout_count, mutex, locals, others, env, lastPub,
                   lastReal, probe>>

\* lock; ppsout_last = ppstimes
publish_last(w) ==
    /\ Alive
    /\ pc[w] = "lock2"
    /\ mutex = FREE
    /\ mutex' = w
    /\ ppsout_last' = ppstimes[w]
    /\ trace' = [trace EXCEPT ![w] = Append(@, "last")]
    /\ pc' = [pc EXCEPT ![w] = "count"]
    /\ UNCHANGED <<hooks, devicefd_tty, kernelpps_handle, shared_in,
                   ppsout_count, locals, others, env, lastPub, lastReal, probe>>

\* a publication that clears the count once the deactivation has begun
publish_count_restart(w) ==
    /\ Alive
    /\ pc[w] = "count"
    /\ ppsout_count' = IF dpc = "idle" THEN ppsout_count + 1 ELSE 0
    /\ mutex' = FREE
    /\ lastPub' = [n |-> ppsout_count', td |-> ppstimes[w]]
    /\ lastReal' = [lastReal EXCEPT ![w] = ppstimes[w].real.sec]
    /\ trace' = [trace EXCEPT ![w] = Append(@, "count")]
    /\ pc' = [pc EXCEPT ![w] = "top"]
    /\ UNCHANGED <<hooks, devicefd_tty, kernelpps_handle, shared_in,
                   ppsout_last, locals, others, env, probe>>

\* ppsout_count++; unlock
publish_count(w) ==
    /\ Alive
    /\ pc[w] = "count"
    /\ ppsout_count' = ppsout_count + 1
    /\ mutex' = FREE
    /\ lastPub' = [n |-> ppsout_count + 1, td |-> ppstimes[w]]
    /\ lastReal' = [lastReal EXCEPT ![w] = ppstimes[w].real.sec]
    /\ trace' = [trace EXCEPT ![w] = Append(@, "count")]
    /\ pc' = [pc EXCEPT ![w] = "top"]
    /\ UNCHANGED <<hooks, devicefd_tty, kernelpps_handle, shared_in,
                   ppsout_last, locals, others, env, probe>>

\* after the loop: if (kernelpps_handle > 0) time_pps_destroy
exit_destroy(w) ==
    /\ Alive
    /\ pc[w] = "exit"
    /\ kpps_live' = IF kernelpps_handle > 0
                    THEN kpps_live \ {kernelpps_handle} ELSE kpps_live
    /\ pc' = [pc EXCEPT ![w] = "wrap"]
    \* the thread's own variables are not used after the loop
    /\ last_fixtime_real' = [last_fixtime_real EXCEPT ![w] = ZeroTs]
    /\ last_fixtime_clock' = [last_fixtime_clock EXCEPT ![w] = ZeroTs]
    /\ last_second_used' = [last_second_used EXCEPT ![w] = 0]
    /\ state_last' = [state_last EXCEPT ![w] = 0]
    /\ unchanged' = [unchanged EXCEPT ![w] = 0]
    /\ pulse' = [pulse EXCEPT ![w] = <<ZeroTs, ZeroTs>>]
    /\ pulse_kpps' = [pulse_kpps EXCEPT ![w] = <<ZeroTs, ZeroTs>>]
    /\ ppstimes' = [ppstimes EXCEPT ![w] = ZeroTd]
    /\ log' = [log EXCEPT ![w] = "NULL"]
    /\ log1' = [log1 EXCEPT ![w] = "NULL"]
    /\ trace' = [trace EXCEPT ![w] = <<>>]
    /\ UNCHANGED <<ctx, others, npolls, kpps_setup, lastPub, lastReal, probe>>

\* an exit that calls wrap_hook without the test for NULL
exit_wrap_untested(w) ==
    /\ Alive
    /\ pc[w] = "wrap"
    /\ trace' = [trace EXCEPT ![w] = <<"wrap">>]
    /\ pc' = [pc EXCEPT ![w] = "done"]
    /\ UNCHANGED <<ctx, locals, others, env, lastPub, lastReal, probe>>

\* if (wrap_hook != NULL) wrap_hook(thread_context); return
exit_wrap(w) ==
    /\ Alive
    /\ pc[w] = "wrap"
    /\ trace' = [trace EXCEPT ![w] =
                     IF wrap_hook THEN <<"wrap">> ELSE <<>>]
    /\ pc' = [pc EXCEPT ![w] = "done"]
    /\ UNCHANGED <<ctx, locals, others, env, lastPub, lastReal, probe>>

gpsd_ppsmonitor(w, Clocks, Lines, Driver) ==
    \/ loop_test_report(w)
    \/ loop_test_pps(w)
    \/ wait_edge(w, Clocks)
    \/ copy_real(w)
    \/ copy_clock(w)
    \/ measure(w, Clocks, Lines, Driver)
    \/ report_test(w)
    \/ report_call(w)
    \/ pps_test(w)
    \/ pps_call(w)
    \/ publish_last(w)
    \/ publish_count(w)
    \/ exit_destroy(w)
    \/ exit_wrap(w)

(***************************************************************************)
(* The correlation of edges with fixes: one worker, the receiver's reader  *)
(* stashing fixes at any moment, edges a second apart on either path.      *)
(***************************************************************************)
\* the fix of UTC second s, stamped off nanoseconds after the host clock
\* read BaseSec + s - 1
FixAt(s, off) == Fix(Ts(s, (s % 2) * 200000000), Ts(BaseSec + s - 1, off))
OffsetsT == {0, 900000000, 900000001}
FixesT == {FixAt(s, off) : s \in 1..MaxStash, off \in OffsetsT}
ClocksT == {Clock(k) : k \in 1..MaxEdges}

InitT ==
    /\ Init
    /\ pps_hook /\ wrap_hook /\ devicefd_tty

NextT ==
    \/ pps_thread_activate({"ok"}, {1}, 1)
    \/ pps_thread_stash_fixtime(FixesT)
    \/ gpsd_ppsmonitor(1, ClocksT, LineStates, TRUE)

SpecT == InitT /\ [][NextT]_vars

(***************************************************************************)
(* The hand-off through the mutex: one worker on the user-space path, the  *)
(* reader stashing fixes and a consumer polling pps_thread_lastpps, the    *)
(* daemon deactivating at any moment.                                      *)
(***************************************************************************)
FixesC == {FixAt(s, 500000000) : s \in 1..MaxStash}
ClocksC == {Clock(k) : k \in 1..MaxEdges}

InitC ==
    /\ Init
    /\ report_hook /\ pps_hook /\ wrap_hook /\ devicefd_tty

NextC ==
    \/ pps_thread_activate({"notroot"}, {1}, 1)
    \/ pps_thread_deactivate
    \/ pps_thread_stash_fixtime(FixesC)
    \/ pps_thread_lastpps
    \/ gpsd_ppsmonitor(1, ClocksC, {0}, TRUE)

SpecC == InitC /\ [][NextC]_vars

\* the same under the scheduler: a thread that can run does run, and the
\* modem-line wait returns (with an edge or with a failure)
LiveC ==
    /\ SpecC
    /\ WF_vars(gpsd_ppsmonitor(1, ClocksC, {0}, TRUE))
    /\ WF_vars(stash_clock_unlock)
    /\ WF_vars(lastpps_count_unlock)

(***************************************************************************)
(* The life cycle: the daemon activates the context, possibly more than    *)
(* once, on a device that is a terminal or not; every worker started runs  *)
(* the loop on the same context, the kernel handing out no PPS event.      *)
(***************************************************************************)
FixesL == {FixAt(1, 500000000)}
ClocksL == {Clock(1), Clock(2)}

InitL ==
    /\ Init
    /\ pps_hook /\ wrap_hook

NextL ==
    \/ pps_thread_activate({"ok"}, {1}, MaxWorkers)
    \/ pps_thread_stash_fixtime(FixesL)
    \/ \E w \in Workers : gpsd_ppsmonitor(w, ClocksL, {0}, FALSE)

SpecL == InitL /\ [][NextL]_vars

(***************************************************************************)
(* The kernel PPS object: one activation whose setup ends at any of its    *)
(* steps, with the handle 0 or 1 from time_pps_create, then one worker     *)
(* until the daemon deactivates or a system call of the loop fails.  The   *)
(* context comes with any of its hooks set or NULL.                        *)
(***************************************************************************)
FixesK == {FixAt(1, 500000000)}
ClocksK == {Clock(1), Clock(2)}
HandlesK == {0, 1}

InitK == Init

NextK ==
    \/ pps_thread_activate(KppsOutcomes, HandlesK, 1)
    \/ pps_thread_deactivate
    \/ pps_thread_stash_fixtime(FixesK)
    \/ gpsd_ppsmonitor(1, ClocksK, {0}, TRUE)

SpecK == InitK /\ [][NextK]_vars

(***************************************************************************)
(* A stuck line: the wait returns again and again with the carrier bit     *)
(* low, at whole seconds of the host clock one or more seconds apart.      *)
(* User-space path, one worker, one fix.                                   *)
(***************************************************************************)
FixesS == {FixAt(1, 0)}
ClocksS == {Clock(k) : k \in 1..MaxTicks}

InitS == Init /\ pps_hook /\ wrap_hook /\ devicefd_tty

NextS ==
    \/ pps_thread_activate({"notroot"}, {1}, 1)
    \/ pps_thread_stash_fixtime(FixesS)
    \/ gpsd_ppsmonitor(1, ClocksS, {0}, FALSE)

SpecS == InitS /\ [][NextS]_vars

(***************************************************************************)
(* The first edges after worker start on a host whose clock reads epoch    *)
(* time: one fix, then wakeups at instants whose microsecond count is, or  *)
(* is not, one second above a multiple of 2^32.  User-space path.          *)
(***************************************************************************)
FixesE == {Fix(Ts(1700003890, 0), Ts(1700003890, 900000000))}
ClocksE ==
    {Ts(1700000000, 0), Ts(1700003000, 0), Ts(1700003891, 331648000),
     Ts(1700003892, 331648000)}

InitE == Init /\ wrap_hook /\ devicefd_tty

NextE ==
    \/ pps_thread_activate({"notroot"}, {1}, 1)
    \/ pps_thread_stash_fixtime(FixesE)
    \/ gpsd_ppsmonitor(1, ClocksE, LineStates, FALSE)

SpecE == InitE /\ [][NextE]_vars

(***************************************************************************)
(* TS_NORM alone, on seconds of either sign and nanoseconds at and around  *)
(* 0, one second and two seconds.                                          *)
(***************************************************************************)
SecsN == {-1700000000, -3, -2, -1, 0, 1, 2, 3, 1700000000}
NsecsN ==
    {-1999999999, -1500000000, -1000000001, -1000000000, -999999999,
     -500000000, -1, 0, 1, 500000000, 999999999, 1000000000, 1000000001,
     1500000000, 1999999999}

InitN == Init /\ report_hook /\ pps_hook /\ wrap_hook /\ devicefd_tty

NextN == ts_norm_alone(SecsN, NsecsN)

SpecN == InitN /\ [][NextN]_vars

(***************************************************************************)
(* The cycle/duration table alone, at and around each of its bounds, in    *)
(* microseconds.                                                           *)
(***************************************************************************)
CyclesF ==
    {-1, 0, 198999, 199000, 200000, 200999, 201000, 899999, 900000, 1000000,
     1099999, 1100000, 1998999, 1999000, 2000000, 2000999, 2001000, 3000000}
DurationsF ==
    {-1, 0, 1, 99999, 100000, 498999, 499000, 500000, 500999, 501000, 950000,
     998999, 999000, 1000000, 1000999, 1001000}

InitF == Init /\ report_hook /\ pps_hook /\ wrap_hook /\ devicefd_tty

NextF == classify_alone(CyclesF, DurationsF)

SpecF == InitF /\ [][NextF]_vars

(***************************************************************************)
(* A clean 1 Hz narrow pulse: the line rises on every second of the host   *)
(* clock and falls 50 ms later, after one fix with the UTC second          *)
(* 1700000000 stamped at BaseSec.  User-space path, one worker.            *)
(***************************************************************************)
FixesP == {Fix(Ts(1700000000, 0), Ts(BaseSec, 0))}
PulseWave ==
    {WaveEdge(Ts(BaseSec + k, 0), TIOCM_CD) : k \in 1..MaxWave}
        \cup {WaveEdge(Ts(BaseSec + k, 50000000), 0) : k \in 1..MaxWave}

InitP == Init

NextP ==
    \/ pps_thread_activate({"notroot"}, {1}, 1)
    \/ pps_thread_stash_fixtime(FixesP)
    \/ gpsd_ppsmonitor(1, WaveClocks(PulseWave, 1), WaveLines(PulseWave, 1), FALSE)

SpecP == InitP /\ [][NextP]_vars

(***************************************************************************)
(* A 1 Hz square wave: the line rises on every second and falls half a     *)
(* second later, the receiver reporting fixes as in SpecT.                 *)
(***************************************************************************)
FixesQ == {FixAt(s, 0) : s \in 1..MaxStash}
SquareWave ==
    {WaveEdge(Ts(BaseSec + k, 0), TIOCM_CD) : k \in 1..MaxWave}
        \cup {WaveEdge(Ts(BaseSec + k, 500000000), 0) : k \in 1..MaxWave}

InitQ == Init

NextQ ==
    \/ pps_thread_activate({"notroot"}, {1}, 1)
    \/ pps_thread_stash_fixtime(FixesQ)
    \/ gpsd_ppsmonitor(1, WaveClocks(SquareWave, 1), WaveLines(SquareWave, 1), FALSE)

SpecQ == InitQ /\ [][NextQ]_vars

(***************************************************************************)
(* Properties of the correlation (SpecT).                                  *)
(***************************************************************************)
\* the places of a worker between the acceptance of an edge and the end of
\* its publication
Publishing == {"report_test", "report_call", "pps_test", "pps_call",
               "lock2", "count"}

\* the delay the worker computed for the edge it holds in ppstimes
Delay(w) == TS_SUB(ppstimes[w].clock, last_fixtime_clock[w])

\* the edge of worker w went through the classifier and the dedup and
\* reached the check of the delay
Checked(w) == ppstimes[w] # ZeroTd

\* a delay of 1.1 s or more
TooLate(d) == d.sec >= 2 \/ (d.sec = 1 /\ d.nsec >= 100000000)

\* a delay that is not negative and below 1.1 s
InRange(d) == d.sec >= 0 /\ d.nsec >= 0 /\ ~TooLate(d)

\* C1: a worker publishes at most once per UTC second: the real.tv_sec it
\* publishes is greater than the one it published before, and an edge whose
\* copied fix second is not after last_second_used is dropped as "this
\* second already handled", calling no hook and leaving ppsout_count alone.
C1_OncePerSecond ==
    [][\A w \in Workers :
        /\ (pc[w] = "count" /\ pc'[w] # "count")
              => /\ ppstimes[w].real.sec > lastReal[w]
                 /\ lastReal'[w] = ppstimes[w].real.sec
        /\ (pc[w] = "measure" /\ pc'[w] \notin {"measure", "exit"}
             /\ last_fixtime_real[w].sec # 0
             /\ last_fixtime_real[w].sec <= last_second_used[w])
              => /\ pc'[w] = "top"
                 /\ trace'[w] \in {<<>>, <<"sleep">>}
                 /\ ppsout_count' = ppsout_count
                 /\ last_second_used'[w] = last_second_used[w]
        /\ log'[w] = "this second already handled"
              => /\ pc'[w] = "top"
                 /\ trace'[w] = <<>>
                 /\ ppsout_count' = ppsout_count]_vars

\* C1 witness: after a publication, a good edge for the same second has
\* been dropped by the dedup.
C1_Witness ==
    /\ lastReal[1] > 0
    /\ log[1] = "this second already handled"
    /\ last_fixtime_real[1].sec + 1 = lastReal[1]

\* C2 as stated: an edge whose delay after the fix is 1.1 s or more is not
\* published (it is logged "timestamp out of range").
C2_LateRejected ==
    \A w \in Workers :
        (Checked(w) /\ TooLate(Delay(w)))
            => /\ pc[w] \notin Publishing
               /\ log1[w] = "timestamp out of range"

\* C3 as stated: an edge whose delay after the fix is not negative and below
\* 1.1 s passes the check: it is not logged as out of range or backwards.
C3_InRangePublished ==
    \A w \in Workers :
        (Checked(w) /\ InRange(Delay(w)))
            => log1[w] \notin {"timestamp out of range",
                               "system clock went backwards"}

\* C4: every publication carries real.tv_nsec = 0 and real.tv_sec one more
\* than the fix second the worker copied out for this edge, whatever has
\* been stashed since.
C4_TopOfSecond ==
    \A w \in Workers :
        /\ pc[w] \in Publishing
              => ppstimes[w].real =
                     [sec |-> last_fixtime_real[w].sec + 1, nsec |-> 0]
        /\ pc[w] = "count"
              => ppsout_last.real =
                     [sec |-> last_fixtime_real[w].sec + 1, nsec |-> 0]

\* C4 witness: a publication under way for a fix with a fraction of a
\* second, after a later fix has been stashed.
C4_Witness ==
    /\ pc[1] = "count"
    /\ last_fixtime_real[1].nsec # 0
    /\ fixin_real.sec > last_fixtime_real[1].sec

(***************************************************************************)
(* Properties of the hand-off (SpecC, LiveC).                              *)
(***************************************************************************)
\* C5: the value pps_thread_lastpps returns never decreases from one call
\* to the next, and ppsout_count changes only when a worker, holding the
\* mutex, ends a publication, and then by exactly one.
C5_CountMonotone ==
    [][/\ ret' >= ret
       /\ ppsout_count' # ppsout_count
             => \E w \in Workers :
                    /\ pc[w] = "count" /\ pc'[w] = "top"
                    /\ mutex = w
                    /\ ppsout_count' = ppsout_count + 1]_vars

\* C5 witness: two calls have returned, the second after a publication,
\* and the worker has published again since.
C5_Witness ==
    /\ npolls >= 2 /\ cpc = "idle"
    /\ ret >= 1
    /\ ppsout_count > ret

\* C6: a call of pps_thread_lastpps that returns n hands out the delta of
\* the n-th publication (the zero delta for n = 0), and the call changes
\* neither ppsout_last nor ppsout_count.
C6_ConsistentPair ==
    [][/\ (cpc = "count" /\ cpc' = "idle")
             => /\ ret' = lastPub.n
                /\ td = lastPub.td
       /\ cpc' # cpc => UNCHANGED <<ppsout_last, ppsout_count>>]_vars

\* C6 witness: a call has returned 2 with the delta of the second
\* publication, which differs from the first.
C6_Witness ==
    /\ cpc = "idle" /\ npolls >= 1
    /\ ret = 2 /\ lastPub.n = 2
    /\ td = lastPub.td
    /\ td.real.sec = 3

\* C7: the pair (last_fixtime_real, last_fixtime_clock) a worker has after
\* its copy-out is the pair of arguments of one call of
\* pps_thread_stash_fixtime, the latest one to have taken the mutex (the
\* zero pair before any call).
C7_PairNotTorn ==
    [][\A w \in Workers :
        (pc[w] = "copy2" /\ pc'[w] = "measure")
            => <<last_fixtime_real'[w], last_fixtime_clock'[w]>> = lastArgs]_vars

\* C7 witness: the worker holds the pair of the second stash while a
\* further call of stash_fixtime is about to start, the first pair having
\* been copied out in an earlier iteration.
C7_Witness ==
    /\ pc[1] = "measure"
    /\ last_fixtime_real[1] = FixAt(2, 500000000).real
    /\ last_fixtime_clock[1] = FixAt(2, 500000000).clock
    /\ lastReal[1] = 2

\* the places of a worker that has left the loop
Left == {"exit", "wrap", "done"}

\* C8: once pps_thread_deactivate has nulled both hooks, a worker that
\* evaluates the loop condition leaves the loop, a worker that has left the
\* loop starts no iteration again, and (the wait returning) every worker
\* comes to its end: it has returned, or the process has died with it in
\* the hook call of the iteration that was in flight.
C8_ExitsAfterDeactivate ==
    /\ [][\A w \in Workers :
            /\ (dpc = "done" /\ pc[w] = "top") => pc'[w] \in {"top", "top2"}
            /\ (dpc = "done" /\ pc[w] = "top2") => pc'[w] \in {"top2", "exit"}
            /\ pc[w] \in Left => pc'[w] \in Left]_vars
    /\ (dpc = "done") ~> (\A w \in Workers :
                             pc[w] \in {"idle", "done", "crashed"})

\* C8 witness: after a publication and the deactivate, the worker is at
\* the second read of the loop condition.
C8_Witness ==
    /\ dpc = "done"
    /\ pc[1] = "top2"
    /\ ppsout_count >= 1

(***************************************************************************)
(* Properties of the life cycle (SpecL).                                   *)
(***************************************************************************)
\* the workers that have been started and have not returned
Running == {w \in Workers : pc[w] \notin {"idle", "done"}}

\* C9 as stated: however often pps_thread_activate is called on the
\* context, at most one worker runs on it at a time.
C9_AtMostOneWorker == Cardinality(Running) <= 1

\* C10 as stated: when device_fd is not a terminal no worker is ever
\* started for the context.
C10_NoWorkerWithoutTty ==
    ~devicefd_tty => \A w \in Workers : pc[w] = "idle"

\* C10 amended: when device_fd is not a terminal the kernel setup alone is
\* given up (kernelpps_handle is -1 after it and no kernel PPS object
\* exists), while every call of pps_thread_activate still goes on to
\* pthread_create, which starts a worker whenever it succeeds.
C10_KernelSetupOnly ==
    [][~devicefd_tty =>
          /\ kernelpps_handle' = -1 /\ kpps_live' = {}
          /\ nact' # nact => apc' = "create"
          /\ (apc = "create" /\ apc' = "idle")
                => \/ pc' = pc
                   \/ \E w \in Workers :
                          /\ pc[w] = "idle"
                          /\ pc' = [pc EXCEPT ![w] = "top"]]_vars

\* C10 witness: device_fd is not a terminal and the worker started by the
\* activation sits in the modem-line wait.
C10_Witness ==
    /\ ~devicefd_tty
    /\ nact = 1 /\ apc = "idle"
    /\ pc[1] = "wait"
    /\ kernelpps_handle = -1

(***************************************************************************)
(* Properties of the kernel PPS object (SpecK).                            *)
(***************************************************************************)
\* C11 as stated: after an init_kernel_pps that failed at any step the
\* handle of the context is negative, and no worker takes a kernel
\* timestamp.
C11_FailedSetupLeavesNone ==
    kpps_setup \notin {"none", "ok"}
        => /\ kernelpps_handle < 0
           /\ \A w \in Workers : log[w] # "KPPS"

\* C12 as stated: once a worker is past its exit, a handle the context
\* holds as usable (0 or more) is no longer open in the kernel.
C12_UsableHandleDestroyed ==
    \A w \in Workers :
        pc[w] \in {"wrap", "done"}
            => (kernelpps_handle >= 0 => kernelpps_handle \notin kpps_live)

\* C13: a failure of the modem-line wait, of the clock read or of the read
\* of the modem bitmap takes the worker out of the loop in that iteration
\* with ppsout_last, ppsout_count and last_second_used as they were and no
\* hook called; every worker that ends has gone through the exit, where
\* wrap_hook is called once if it is set and not at all if it is NULL.
C13_LoopFatalAndWrap ==
    [][\A w \in Workers :
        /\ (pc[w] \in {"wait", "measure"} /\ pc'[w] = "exit")
              => /\ UNCHANGED <<ppsout_last, ppsout_count>>
                 /\ last_second_used'[w] = last_second_used[w]
                 /\ pulse'[w] = pulse[w] /\ state_last'[w] = state_last[w]
                 /\ trace'[w] = trace[w]
                 /\ "report" \notin {trace[w][i] : i \in DOMAIN trace[w]}
                 /\ "pps" \notin {trace[w][i] : i \in DOMAIN trace[w]}
        /\ (pc[w] = "exit" /\ pc'[w] # "exit")
              => (pc'[w] = "wrap" /\ trace'[w] = <<>>)
        /\ (pc[w] = "wrap" /\ pc'[w] # "wrap")
              => /\ pc'[w] = "done"
                 /\ trace'[w] = IF wrap_hook THEN <<"wrap">> ELSE <<>>
        /\ pc[w] = "done" => (pc'[w] = "done" /\ trace'[w] = trace[w])
        /\ (pc'[w] = "done" /\ pc[w] # "done") => pc[w] = "wrap"]_vars

\* C13 witness: the worker has left the loop on a failed system call after
\* a publication, nobody having deactivated, and ended without a wrap hook
\* to call.
C13_Witness ==
    /\ pc[1] = "done" /\ trace[1] = <<>>
    /\ ~wrap_hook /\ report_hook /\ pps_hook
    /\ ppsout_count = 1

\* C14: the worker leaves the loop at its condition only when report_hook
\* and pps_hook are both NULL, and goes on to the wait when either is set;
\* a pulse accepted while report_hook is NULL gets the tag "no report
\* hook", no report call, and is published all the same.
C14_BothHooksNull ==
    [][\A w \in Workers :
        /\ (pc[w] \in {"top", "top2"} /\ pc'[w] = "exit")
              => (~report_hook /\ ~pps_hook)
        /\ (pc[w] = "top" /\ pc'[w] # "top")
              => pc'[w] = IF report_hook THEN "wait" ELSE "top2"
        /\ (pc[w] = "top2" /\ pc'[w] # "top2")
              => pc'[w] = IF pps_hook THEN "wait" ELSE "exit"
        /\ (pc[w] = "report_test" /\ pc'[w] # "report_test" /\ ~report_hook)
              => /\ pc'[w] = "pps_test"
                 /\ log1'[w] = "no report hook"
                 /\ trace'[w] = trace[w]
        /\ (pc[w] = "count" /\ pc'[w] # "count" /\ log1[w] = "no report hook")
              => /\ ppsout_count' = ppsout_count + 1
                 /\ ppsout_last = ppstimes[w]
                 /\ trace'[w] \in {<<"pps", "last", "count">>,
                                   <<"last", "count">>}]_vars

\* C14 witness: a context with pps_hook alone; the worker has published a
\* pulse through it and is back at the loop top.
C14_Witness ==
    /\ ~report_hook /\ pps_hook /\ dpc = "idle"
    /\ pc[1] = "top"
    /\ log1[1] = "no report hook"
    /\ trace[1] = <<"pps", "last", "count">>
    /\ ppsout_count = 1

\* C15: an edge the worker has time-stamped and then rejected, by the
\* cycle/duration table, by the stuck-state counter, by the dedup or by the
\* delay check, is no error: the worker goes back to the loop top, not to
\* the exit, with no hook called and with ppsout_last, ppsout_count and
\* last_second_used as they were.
C15_RejectionContinues ==
    [][\A w \in Workers :
        /\ (pc[w] = "measure" /\ pulse'[w] # pulse[w])
              => pc'[w] \in {"top", "report_test"}
        /\ (pc[w] = "measure" /\ pc'[w] = "top")
              => /\ UNCHANGED <<ppsout_last, ppsout_count>>
                 /\ last_second_used'[w] = last_second_used[w]
                 /\ trace'[w] \in {<<>>, <<"sleep">>}]_vars

\* C15 witness: after a publication for second 1 the worker has rejected
\* an edge at the delay check and is back at the loop top.
C15_Witness ==
    /\ pc[1] = "top"
    /\ log1[1] = "timestamp out of range"
    /\ last_second_used[1] = 1 /\ ppsout_count = 1
    /\ last_fixtime_real[1].sec = 2

C18_SquareWaveAsserts ==
    [][(/\ pc[1] = "measure" /\ pulse'[1] # pulse[1]
        /\ pulse[1][1].sec # 0 /\ pulse[1][2].sec # 0)
            => IF state_last'[1] = TIOCM_CD
               THEN /\ pulse'[1][2] # pulse[1][2]
                    /\ log'[1] \in {"square", "this second already handled"}
                    /\ pc'[1] = "report_test" => log'[1] = "square"
               ELSE /\ pulse'[1][1] # pulse[1][1]
                    /\ log'[1] = "Unknown error"
                    /\ pc'[1] = "top"]_vars

\* C18 witness: two assert edges of the square wave have been published
\* and the clear edge after the second of them has been rejected.
C18_Witness ==
    /\ pc[1] = "top"
    /\ ppsout_count = 2
    /\ log[1] = "Unknown error"
    /\ pulse[1] = <<Ts(BaseSec + 3, 500000000), Ts(BaseSec + 3, 0)>>

\* C17: the classifier accepts exactly when 199000 <= cycle < 201000 and
\* duration < 100000, or 900000 <= cycle < 1100000 and (duration = 0, or
\* 499000 <= duration < 501000 on an assert edge, or duration >= 501000),
\* or 1999000 <= cycle < 2001000 and 999000 <= duration < 1001000; it
\* rejects every other case, a negative cycle, cycle = 201000 and cycle >=
\* 2001000 among them.
C17_ClassifierTable ==
    probe # NoProbe =>
        LET c == probe.cycle
            d == probe.duration
        IN  probe.ok =
              \/ 199000 <= c /\ c < 201000 /\ d < 100000
              \/ /\ 900000 <= c /\ c < 1100000
                 /\ \/ d = 0
                    \/ 499000 <= d /\ d < 501000 /\ probe.edge = 1
                    \/ d >= 501000
              \/ 1999000 <= c /\ c < 2001000 /\ 999000 <= d /\ d < 1001000

\* C17 witness: the classifier has rejected a 5 Hz-like edge whose cycle is
\* exactly the upper bound 201000.
C17_Witness ==
    /\ probe.cycle = 201000 /\ probe.duration = 99999
    /\ ~probe.ok /\ probe.log = "Too long for 5Hz, too short for 1Hz"

\* C19: a wakeup that finds the line state as it was, more or less than a
\* second (999000 < cycle < 1001000 us) after the previous one, is skipped
\* with nothing classified or published and counts one more in unchanged;
\* the wakeup that brings the counter to 10 sleeps and leaves it at 1, so
\* ten in a row from 0 sleep exactly once, and the counter is always
\* within 0..9.
C19_StuckLine ==
    /\ [](unchanged[1] \in 0..9)
    /\ [][LET cycle == timespec_diff_us(pulse'[1][1], pulse[1][1])
          IN (/\ pc[1] = "measure" /\ pulse'[1] # pulse[1]
              /\ state_last'[1] = state_last[1]
              /\ ~(999000 < cycle /\ cycle < 1001000))
                => /\ pc'[1] = "top"
                   /\ log'[1] = "NULL" /\ log1'[1] = "NULL"
                   /\ UNCHANGED <<ppsout_last, ppsout_count>>
                   /\ last_second_used'[1] = last_second_used[1]
                   /\ unchanged'[1] =
                         IF unchanged[1] = 9 THEN 1 ELSE unchanged[1] + 1
                   /\ trace'[1] =
                         IF unchanged[1] = 9 THEN <<"sleep">> ELSE <<>>]_vars

\* C19 witness: the worker has just slept on the tenth stuck wakeup, with a
\* fix in hand and nothing published.
C19_Witness ==
    /\ pc[1] = "top"
    /\ trace[1] = <<"sleep">> /\ unchanged[1] = 1
    /\ last_fixtime_real[1].sec # 0
    /\ ppsout_count = 0

\* the events of one iteration, in the order the worker may produce them
TraceShapes ==
    LET full == {<<"report", "pps", "last", "count">>,
                 <<"pps", "last", "count">>,
                 <<"report", "last", "count">>,
                 <<"last", "count">>}
    IN  UNION {{SubSeq(f, 1, n) : n \in 0..Len(f)} : f \in full}
            \cup {<<"sleep">>, <<"wrap">>}

\* the places of a worker from the acceptance of an edge to the lock of the
\* publication
Calling == {"report_test", "report_call", "pps_test", "pps_call", "lock2"}

\* C20: for an accepted pulse the worker sets last_second_used to the
\* second of the fix it copied, then calls the report hook, then the pps
\* hook, then writes ppsout_last and increments ppsout_count under the
\* mutex, each at most once and all with one and the same delta; while
\* the hooks run the worker does not hold the mutex and the context still
\* carries the previous publication, which is what a call of
\* pps_thread_lastpps made during the pps hook returns.
C20_PublicationOrder ==
    /\ [](\A w \in Workers :
            /\ trace[w] \in TraceShapes
            /\ pc[w] \in Publishing
                  => last_second_used[w] = last_fixtime_real[w].sec
            /\ pc[w] \in Calling
                  => /\ mutex # w
                     /\ ppsout_last # ppstimes[w]
                     /\ ppsout_count = lastPub.n /\ ppsout_last = lastPub.td
            /\ pc[w] = "pps_call" => trace[w] \in {<<>>, <<"report">>}
            /\ pc[w] = "count"
                  => mutex = w /\ ppsout_last = ppstimes[w]
                       /\ ppsout_count = lastPub.n)
    /\ [][\A w \in Workers :
            /\ pc[w] \in Publishing => ppstimes'[w] = ppstimes[w]
            /\ (pc[w] = "pps_call" /\ cpc = "count" /\ cpc' = "idle")
                  => (ret' = lastPub.n /\ td = lastPub.td /\ td # ppstimes[w])
            /\ (pc[w] = "count" /\ pc'[w] # "count")
                  => ppsout_count' = ppsout_count + 1]_vars

\* C20 witness: the worker is in the pps hook of its second pulse, the
\* report hook behind it, while a call of pps_thread_lastpps holds the
\* mutex and is about to return the count 1 of the first.
C20_Witness ==
    /\ pc[1] = "pps_call" /\ trace[1] = <<"report">>
    /\ cpc = "count" /\ mutex = CONSUMER
    /\ ppsout_count = 1
    /\ ppstimes[1].real.sec = 3 /\ last_second_used[1] = 2

\* C21: the clock instant of an accepted pulse is the kernel timestamp
\* fetched in this iteration exactly when the context has a kernel handle,
\* the fetch of this iteration succeeded and its cycle_kpps is strictly
\* between 990000 and 1010000 us; otherwise, a failed fetch included, it
\* is the clock_ts the worker read at this wakeup, never a kernel
\* timestamp kept from an earlier iteration.  That instant is what gets
\* published.
C21_KernelOrUserClock ==
    [][\A w \in Workers :
        /\ (pc[w] = "measure" /\ pc'[w] = "report_test")
              => LET kidx == {i \in 1..2 : pulse_kpps'[w][i] # pulse_kpps[w][i]}
                     uidx == {j \in 1..2 : pulse'[w][j] # pulse[w][j]}
                     kernel ==
                         /\ 0 <= kernelpps_handle
                         /\ \E i \in kidx :
                              LET d == timespec_diff_us(pulse_kpps'[w][i],
                                                        pulse_kpps[w][i])
                              IN  990000 < d /\ d < 1010000
                 IN  /\ uidx # {}
                     /\ kernel => \E i \in kidx :
                                      ppstimes'[w].clock = pulse_kpps'[w][i]
                     /\ ~kernel => \E j \in uidx :
                                       ppstimes'[w].clock = pulse'[w][j]
        /\ (pc[w] = "lock2" /\ pc'[w] = "count")
              => ppsout_last'.clock = ppstimes[w].clock]_vars

\* C21 witness: after a first publication a second pulse has been
\* published with the kernel timestamp of its own iteration, 20 us before
\* the instant the worker read.
C21_Witness ==
    /\ pc[1] = "top"
    /\ ppsout_count = 2
    /\ ppsout_last.clock = Ts(BaseSec + 2, 999980000)
    /\ pulse[1][1] = Clock(3) /\ pulse_kpps[1][1] = ppsout_last.clock
    /\ kernelpps_handle = 1

\* C22 as stated: an edge 2001000 us or more after the stored timestamp of
\* its polarity, the zero timestamp of a worker's first edge included, is
\* not published; if it reaches the table it is rejected there as too
\* long for 0.5 Hz, whatever the clock reads.
C22_LongCycleRejected ==
    [][\A w \in Workers : \A j \in 1..2 :
        LET d == TS_SUB(pulse'[w][j], pulse[w][j])
        IN  (/\ pc[w] = "measure" /\ pulse'[w][j] # pulse[w][j]
             /\ (d.sec > 2 \/ (d.sec = 2 /\ d.nsec >= 1000000)))
                => /\ pc'[w] = "top"
                   /\ unchanged'[w] = 0 => log'[w] = "Too long for 0.5Hz"]_vars

\* the result of TS_NORM stands for the same time as its input and obeys
\* the sign rules
Normalized(ts) ==
    /\ ts.sec > 0 => (0 <= ts.nsec /\ ts.nsec < 1000000000)
    /\ ts.sec < 0 => (-1000000000 < ts.nsec /\ ts.nsec <= 0)
    /\ ts.sec = 0 => (-1000000000 < ts.nsec /\ ts.nsec < 1000000000)

SameTime(a, b) ==
    /\ a.sec - b.sec \in {-1, 0, 1}
    /\ (a.sec - b.sec) * 1000000000 + (a.nsec - b.nsec) = 0

\* C23 as stated: for every input with |nsec| < 2 * 10^9, whatever the
\* seconds, the result of TS_NORM is the same time, obeys the sign rules,
\* and is left as it is by a second TS_NORM.
C23_NormalizesAnyInput ==
    probe # NoProbe
        => /\ SameTime(probe.once, probe.ts)
           /\ Normalized(probe.once)
           /\ probe.twice = probe.once

\* C23, amended: the same for every input with |nsec| < 2 * 10^9 whose
\* nanoseconds are not more than a second on the other side of zero than
\* seconds of 2 or more (nsec >= -10^9 when sec >= 2, nsec <= 10^9 when
\* sec <= -2), which covers every sum and difference of two normalised
\* timespecs; for every input the result is the same time.
C23_NormalizesOneCarry ==
    probe # NoProbe
        => /\ SameTime(probe.once, probe.ts)
           /\ (/\ probe.ts.sec >= 2 => probe.ts.nsec >= -1000000000
               /\ probe.ts.sec <= -2 => probe.ts.nsec <= 1000000000)
                 => /\ Normalized(probe.once)
                    /\ probe.twice = probe.once

\* C23 witness: a second borrowed from positive seconds for negative
\* nanoseconds.
C23_Witness ==
    /\ probe # NoProbe
    /\ probe.ts = [sec |-> 2, nsec |-> -1000000000]
    /\ probe.once = [sec |-> 1, nsec |-> 0]
    /\ probe.twice = probe.once

\* C24: a wakeup for which the worker copied out no fix (tv_sec 0) goes
\* back to the loop top, or out on a failed system call, with nothing
\* published, no hook called, no kernel timestamp stored and state_last,
\* pulse[], pulse_kpps[], unchanged and last_second_used as they were.
C24_NoFixNoEffect ==
    [][\A w \in Workers :
        (pc[w] = "measure" /\ pc'[w] # "measure"
         /\ last_fixtime_real[w].sec = 0)
            => /\ pc'[w] \in {"top", "exit"}
               /\ state_last'[w] = state_last[w]
               /\ pulse'[w] = pulse[w]
               /\ pulse_kpps'[w] = pulse_kpps[w]
               /\ unchanged'[w] = unchanged[w]
               /\ last_second_used'[w] = last_second_used[w]
               /\ trace'[w] \in {<<>>, trace[w]}
               /\ log'[w] # "KPPS"
               /\ UNCHANGED <<ppsout_last, ppsout_count>>]_vars

\* C24 witness: the worker, with a kernel handle, is handling a wakeup
\* for which it copied no fix, the first fix having been stashed just
\* after the copy; no edge has been stored yet.
C24_Witness ==
    /\ pc[1] = "measure"
    /\ last_fixtime_real[1].sec = 0 /\ fixin_real.sec # 0
    /\ 0 <= kernelpps_handle
    /\ pulse[1] = <<ZeroTs, ZeroTs>> /\ pulse_kpps[1] = <<ZeroTs, ZeroTs>>

\* C25 as stated: whatever the interleaving with pps_thread_deactivate,
\* the worker never calls report_hook or pps_hook through a field that is
\* NULL at the moment of the call.
C25_NoCallThroughNull ==
    \A w \in Workers :
        /\ pc[w] # "crashed"
        /\ pc[w] = "report_call" => report_hook
        /\ pc[w] = "pps_call" => pps_hook

\* C26: a worker holds ppslast_mutex only between the two statements of
\* its copy-out and between the two of its publication, so not during the
\* wait, the clock read, the kernel fetch, the sleep or a hook; the fix
\* thread and the polling thread hold it only between their two
\* statements; the mutex is taken only when free, and the step after a
\* lock is its unlock.
C26_MutexOnlyInCriticalSections ==
    /\ [](/\ \A w \in Workers : mutex = w <=> pc[w] \in {"copy2", "count"}
          /\ mutex = STASHER <=> spc = "clock"
          /\ mutex = CONSUMER <=> cpc = "count"
          /\ mutex \in {FREE, STASHER, CONSUMER} \cup Workers)
    /\ [][/\ (mutex' # mutex /\ mutex' # FREE) => mutex = FREE
          /\ \A w \in Workers :
                (mutex = w /\ pc'[w] # pc[w])
                    => (mutex' = FREE /\ pc'[w] \in {"measure", "top"})
          /\ (mutex = STASHER /\ spc' # spc) => mutex' = FREE
          /\ (mutex = CONSUMER /\ cpc' # cpc) => mutex' = FREE]_vars

\* C26 witness: while the worker is in the pps hook the fix thread has
\* taken the mutex for a stash.
C26_Witness ==
    /\ pc[1] = "pps_call" /\ pps_hook
    /\ mutex = STASHER /\ spc = "clock"

\* the verdict of the cycle/duration table on an edge
TableAccepts(c, d, e) ==
    \/ 199000 <= c /\ c < 201000 /\ d < 100000
    \/ /\ 900000 <= c /\ c < 1100000
       /\ d = 0 \/ (499000 <= d /\ d < 501000 /\ e = 1) \/ d >= 501000
    \/ 1999000 <= c /\ c < 2001000 /\ 999000 <= d /\ d < 1001000

\* C27: an edge goes on to the hooks and the publication only if the
\* cycle/duration table accepted it on the instants the worker read
\* itself, whether or not the kernel path accepted it; a wakeup skipped by
\* the stuck-state counter is never published.
C27_UserSpaceDecides ==
    [][\A w \in Workers : \A j \in 1..2 :
        (pc[w] = "measure" /\ pc'[w] = "report_test"
         /\ pulse'[w][j] # pulse[w][j])
            => LET cycle == int_diff_us(pulse'[w][j], pulse[w][j])
                   dur == int_diff_us(pulse'[w][j], pulse[w][3 - j])
                   same == state_last'[w] = state_last[w]
               IN  /\ unchanged'[w] = 0
                   /\ same => (999000 < cycle /\ cycle < 1001000)
                   /\ TableAccepts(cycle, IF same THEN 0 ELSE dur, j - 1)]_vars

\* C27 witness: the kernel path has accepted an edge ("KPPS") that the
\* worker skipped as a wakeup with the line unchanged; nothing has been
\* published.
C27_Witness ==
    /\ pc[1] = "top"
    /\ log[1] = "KPPS" /\ unchanged[1] > 0
    /\ last_fixtime_real[1].sec # 0
    /\ ppsout_count = 0 /\ last_second_used[1] = 0

\* the places of a worker that is not inside an iteration
Quiet == {"idle", "top", "top2", "exit", "wrap", "done", "crashed"}

\* C28: once pps_thread_deactivate has returned, the one worker calls no
\* hook any more; an iteration it was in may still end with one
\* publication, after which, as from any place outside an iteration, it
\* starts no other and ppsout_last and ppsout_count stay; and they stay
\* once the worker has ended, deactivated or not.
C28_AtMostOneLatePublication ==
    [][/\ dpc = "done"
            => /\ trace'[1] # Append(trace[1], "report")
               /\ trace'[1] # Append(trace[1], "pps")
               /\ ppsout_count' # ppsout_count
                    => /\ ppsout_count' = ppsout_count + 1
                       /\ pc[1] = "count" /\ pc'[1] = "top"
               /\ pc[1] \in Quiet
                    => /\ pc'[1] \in Quiet
                       /\ UNCHANGED <<ppsout_last, ppsout_count>>
       /\ pc[1] = "done"
            => /\ pc'[1] = "done"
               /\ UNCHANGED <<ppsout_last, ppsout_count>>]_vars

\* C28 witness: the worker is back at the loop top after a publication
\* it made once the deactivation had returned, with neither hook called
\* for it.
C28_Witness ==
    /\ dpc = "done" /\ pc[1] = "top"
    /\ trace[1] = <<"last", "count">> /\ log1[1] = "no report hook"
    /\ ppsout_count = 1

====
